---- MODULE Spec2Model ----
(***************************************************************************)
(* Model of migration/parser/parser.py: the schema inference pass of       *)
(* autoMigrate (UniqueFinder and SchemaParser).                            *)
(*                                                                         *)
(* Python values are records [t, v, items]: t is the exact Python type of  *)
(* the value, v the payload of a scalar (as text), items the entries of a  *)
(* list, dict or tuple as a sequence of <<key, value>> pairs (key "" for   *)
(* the elements of a list or tuple).  A Python dict keeps insertion order, *)
(* so every dict of the program (documents, fields, relationships,         *)
(* field_map, rel_map, Counter, candidates, candidate_maps) is a sequence  *)
(* of <<key, value>> pairs with distinct keys.                             *)
(***************************************************************************)
EXTENDS Integers, Sequences, FiniteSets, TLC

(***************************************************************************)
(* Bounds of the model.                                                    *)
(***************************************************************************)
MaxDocs == 3

MaxListLen == 3

MaxMapLen == 4

(***************************************************************************)
(* Python values.                                                          *)
(***************************************************************************)
Scalar(t, v) == [t |-> t, v |-> v, items |-> <<>>]

PyList(elems) == [t |-> "list", v |-> "", items |-> [i \in 1..Len(elems) |-> <<"", elems[i]>>]]

PyDict(pairs) == [t |-> "dict", v |-> "", items |-> pairs]

PyTuple(elems) == [t |-> "tuple", v |-> "", items |-> [i \in 1..Len(elems) |-> <<"", elems[i]>>]]

(***************************************************************************)
(* Ordered dict operations (dict[k] = v, k in dict, dict.get, del, keys).  *)
(***************************************************************************)
DictKeys(d) == {d[i][1] : i \in 1..Len(d)}

DictHas(d, k) == \E i \in 1..Len(d) : d[i][1] = k

DictIndex(d, k) == CHOOSE i \in 1..Len(d) : d[i][1] = k

DictGet(d, k) == d[DictIndex(d, k)][2]

DictGetDefault(d, k, default) == IF DictHas(d, k) THEN DictGet(d, k) ELSE default

DictSet(d, k, v) ==
    IF DictHas(d, k)
    THEN [i \in 1..Len(d) |-> IF d[i][1] = k THEN <<k, v>> ELSE d[i]]
    ELSE Append(d, <<k, v>>)

DictDel(d, k) == SelectSeq(d, LAMBDA p : p[1] # k)

RECURSIVE DictUpdateFrom(_, _, _)
DictUpdateFrom(d, other, i) ==
    IF i > Len(other) THEN d
    ELSE DictUpdateFrom(DictSet(d, other[i][1], other[i][2]), other, i + 1)

DictUpdate(d, other) == DictUpdateFrom(d, other, 1)

(***************************************************************************)
(* Module constants: TypeHierarchy (in definition order) and the keys of   *)
(* SQL_TYPES.                                                              *)
(***************************************************************************)
TypeHierarchy == <<"int", "float", "str">>

SQL_TYPES == {"bool", "int", "float", "str", "ObjectId"}

(***************************************************************************)
(* isinstance(value, type_) for the types of the hierarchy: bool is a      *)
(* subclass of int.                                                        *)
(***************************************************************************)
IsInstance(value, type_) ==
    CASE type_ = "int" -> value.t \in {"int", "bool"}
      [] type_ = "float" -> value.t = "float"
      [] type_ = "str" -> value.t = "str"
      [] OTHER -> FALSE

(***************************************************************************)
(* The literals Python's int() and float() accept among the text payloads  *)
(* of the model.                                                           *)
(***************************************************************************)
IntLiterals == {"1", "2", "42"}

FloatLiterals == IntLiterals \cup {"4.2", "inf", "nan"}

(***************************************************************************)
(* type_(value): "ok" when the constructor returns, else the exception it  *)
(* raises.  int(float) truncates, but int(nan) raises ValueError and       *)
(* int(inf) raises OverflowError; int/float of an ObjectId, list, dict or  *)
(* tuple raise TypeError; str() accepts everything.                        *)
(***************************************************************************)
Coerce(type_, value) ==
    CASE type_ = "int" ->
           CASE value.t \in {"int", "bool"} -> "ok"
             [] value.t = "float" ->
                  IF value.v = "nan" THEN "ValueError"
                  ELSE IF value.v \in {"inf", "-inf"} THEN "OverflowError"
                  ELSE "ok"
             [] value.t = "str" -> IF value.v \in IntLiterals THEN "ok" ELSE "ValueError"
             [] OTHER -> "TypeError"
      [] type_ = "float" ->
           CASE value.t \in {"int", "bool", "float"} -> "ok"
             [] value.t = "str" -> IF value.v \in FloatLiterals THEN "ok" ELSE "ValueError"
             [] OTHER -> "TypeError"
      [] OTHER -> "ok"

(***************************************************************************)
(* SchemaParser.infer_type: the walk over TypeHierarchy from position i.   *)
(* The result is [exc, type]: exc = "none" and the returned type, or the   *)
(* exception that leaves the function (only ValueError and TypeError are   *)
(* caught).                                                                *)
(***************************************************************************)
RECURSIVE InferFrom(_, _)
InferFrom(value, i) ==
    IF i > Len(TypeHierarchy)
    THEN [exc |-> "none", type |-> TypeHierarchy[Len(TypeHierarchy)]]
    ELSE LET type_ == TypeHierarchy[i]
             c == Coerce(type_, value)
         IN  IF IsInstance(value, type_) THEN [exc |-> "none", type |-> type_]
             ELSE IF c = "ok" THEN [exc |-> "none", type |-> type_]
             ELSE IF c \in {"ValueError", "TypeError"} THEN InferFrom(value, i + 1)
             ELSE [exc |-> c, type |-> "none"]

infer_type(value) == InferFrom(value, 1)

(***************************************************************************)
(* SchemaParser._is_complex.  any([v for v in ... if isinstance(v,         *)
(* List | Mapping)]) tests the truth value of the nested lists and maps,   *)
(* and an empty list or dict is false.                                     *)
(***************************************************************************)
IsListOrMapping(v) == v.t \in {"list", "dict"}

Truthy(v) == IF IsListOrMapping(v) \/ v.t = "tuple" THEN Len(v.items) > 0 ELSE TRUE

AnyNested(items) ==
    \E i \in 1..Len(items) : IsListOrMapping(items[i][2]) /\ Truthy(items[i][2])

MapThreshold == 3

_is_complex(value) ==
    IF value.t = "list" /\ ~AnyNested(value.items) THEN FALSE
    ELSE IF value.t = "dict"
         THEN IF Len(value.items) > MapThreshold THEN TRUE
              ELSE IF ~AnyNested(value.items) THEN FALSE
              ELSE TRUE
         ELSE TRUE

(***************************************************************************)
(* SchemaParser.parse_object on the entries of a dict, from entry i on,    *)
(* with the fields and relationships collected so far.  A relationship is  *)
(* stored as the tuple (fields, relationships) parse_object returns for    *)
(* the nested dict.                                                        *)
(***************************************************************************)
Extended(field_name, value) ==
    [i \in 1..Len(value.items) |->
        <<field_name \o "_" \o value.items[i][1], value.items[i][2]>>]

RECURSIVE ParseItems(_, _, _, _)
ParseItems(items, i, fields, relationships) ==
    IF i > Len(items) THEN PyTuple(<<PyDict(fields), PyDict(relationships)>>)
    ELSE LET field_name == items[i][1]
             value == items[i][2]
         IN  IF value.t \in SQL_TYPES
             THEN ParseItems(items, i + 1, DictSet(fields, field_name, value), relationships)
             ELSE IF ~_is_complex(value) /\ value.t = "list"
             THEN ParseItems(items, i + 1, DictSet(fields, field_name, value), relationships)
             ELSE IF ~_is_complex(value) /\ value.t = "dict"
             THEN ParseItems(items, i + 1,
                             DictUpdate(fields, Extended(field_name, value)), relationships)
             ELSE IF value.t = "dict"
             THEN ParseItems(items, i + 1, fields,
                             DictSet(relationships, field_name,
                                     ParseItems(value.items, 1, <<>>, <<>>)))
             ELSE ParseItems(items, i + 1, fields, relationships)

(***************************************************************************)
(* parse_object(doc): [exc, fields, relationships].  doc.items() raises    *)
(* AttributeError when doc is not a dict.                                  *)
(***************************************************************************)
parse_object(doc) ==
    IF doc.t # "dict"
    THEN [exc |-> "AttributeError", fields |-> <<>>, relationships |-> <<>>]
    ELSE LET r == ParseItems(doc.items, 1, <<>>, <<>>)
         IN  [exc |-> "none",
              fields |-> r.items[1][2].items,
              relationships |-> r.items[2][2].items]

(***************************************************************************)
(* Membership in the Bloom filter, taken as an exact set: the filter hashes *)
(* the value, and Python's hash and equality identify True with 1.         *)
(***************************************************************************)
BloomKey(value) ==
    IF value.t = "bool"
    THEN [c |-> "num", k |-> IF value.v = "True" THEN "1" ELSE "0"]
    ELSE IF value.t \in {"int", "float"} THEN [c |-> "num", k |-> value.v]
    ELSE [c |-> value.t, k |-> value.v]

(***************************************************************************)
(* isinstance(value, Iterable): str, list, dict and tuple are iterable.    *)
(***************************************************************************)
IsIterable(value) == value.t \in {"str", "list", "dict", "tuple"}

(***************************************************************************)
(* UniqueFinder.check_unique on uf = [candidates, candidate_maps].         *)
(***************************************************************************)
check_unique(uf, field_name, value) ==
    IF IsIterable(value) THEN uf
    ELSE IF ~DictGetDefault(uf.candidates, field_name, TRUE) THEN uf
    ELSE LET uf1 == IF ~DictHas(uf.candidates, field_name)
                    THEN [candidates |-> DictSet(uf.candidates, field_name, TRUE),
                          candidate_maps |-> DictSet(uf.candidate_maps, field_name, {})]
                    ELSE uf
             filter == DictGet(uf1.candidate_maps, field_name)
         IN  IF BloomKey(value) \in filter
             THEN [candidates |-> DictSet(uf1.candidates, field_name, FALSE),
                   candidate_maps |-> DictDel(uf1.candidate_maps, field_name)]
             ELSE [candidates |-> uf1.candidates,
                   candidate_maps |-> DictSet(uf1.candidate_maps, field_name,
                                              filter \cup {BloomKey(value)})]

(***************************************************************************)
(* UniqueFinder.get_uniques, as the set of the listed names.               *)
(***************************************************************************)
get_uniques(cands) == {cands[i][1] : i \in {j \in 1..Len(cands) : cands[j][2]}}

(***************************************************************************)
(* Counter: types[instance_type] += 1 (a missing key counts 0 and is       *)
(* inserted last).                                                          *)
(***************************************************************************)
CounterAssignOne(types, instance_type) == DictSet(types, instance_type, 1)

CounterIncr(types, instance_type) ==
    DictSet(types, instance_type, DictGetDefault(types, instance_type, 0) + 1)

(***************************************************************************)
(* The default entry of field_map (the defaultdict's factory).             *)
(***************************************************************************)
DefaultFieldSpec == [infered_type |-> "str", types |-> <<>>]

(***************************************************************************)
(* The two statements of generate_schema that update one field's entry.    *)
(***************************************************************************)
UpdateField(fm, field, instance_type) ==
    LET entry == DictGetDefault(fm, field, DefaultFieldSpec)
    IN  DictSet(fm, field, [infered_type |-> instance_type,
                            types |-> CounterIncr(entry.types, instance_type)])

(***************************************************************************)
(* The state one call of generate_schema works on: its locals field_map    *)
(* and rel_map, the parser's UniqueFinder, and the exception that has left *)
(* the loop ("none" while it runs).                                        *)
(***************************************************************************)
FreshState ==
    [field_map |-> <<>>, rel_map |-> <<>>, candidates |-> <<>>,
     candidate_maps |-> <<>>, exc |-> "none"]

RECURSIVE FieldsLoop(_, _, _)
RECURSIVE RelLoop(_, _, _)
RECURSIVE LoopBody(_, _)
RECURSIVE DocsLoop(_, _, _)

(***************************************************************************)
(* for field, content in fields.items(): ...  (from entry i on)            *)
(***************************************************************************)
FieldsLoop(fields, i, st) ==
    IF i > Len(fields) THEN st
    ELSE LET field == fields[i][1]
             content == fields[i][2]
             inferred == infer_type(content)
         IN  IF inferred.exc # "none" THEN [st EXCEPT !.exc = inferred.exc]
             ELSE LET uf == check_unique([candidates |-> st.candidates,
                                          candidate_maps |-> st.candidate_maps],
                                         field, content)
                  IN  FieldsLoop(fields, i + 1,
                                 [st EXCEPT !.field_map = UpdateField(@, field, inferred.type),
                                            !.candidates = uf.candidates,
                                            !.candidate_maps = uf.candidate_maps])

(***************************************************************************)
(* for name, rel in relationships.items(): a new SchemaParser runs         *)
(* generate_schema(rel, sub=True) over the tuple rel, and its result       *)
(* replaces rel_map[name].                                                 *)
(***************************************************************************)
RelLoop(relationships, i, st) ==
    IF i > Len(relationships) THEN st
    ELSE LET name == relationships[i][1]
             rel == relationships[i][2]
             sub == DocsLoop(rel.items, 1, FreshState)
         IN  IF sub.exc # "none" THEN [st EXCEPT !.exc = sub.exc]
             ELSE RelLoop(relationships, i + 1,
                          [st EXCEPT !.rel_map = DictSet(@, name, sub.field_map)])

(***************************************************************************)
(* The body of "for doc in collection" for one document.                   *)
(***************************************************************************)
LoopBody(st, doc) ==
    LET parsed == parse_object(doc)
    IN  IF parsed.exc # "none" THEN [st EXCEPT !.exc = parsed.exc]
        ELSE LET st1 == FieldsLoop(parsed.fields, 1, st)
             IN  IF st1.exc # "none" THEN st1
                 ELSE RelLoop(parsed.relationships, 1, st1)

(***************************************************************************)
(* generate_schema over a whole collection (the elements of a list or      *)
(* tuple, from element i on); an exception ends the loop.                  *)
(***************************************************************************)
DocsLoop(collection, i, st) ==
    IF i > Len(collection) \/ st.exc # "none" THEN st
    ELSE DocsLoop(collection, i + 1, LoopBody(st, collection[i][2]))

generate_schema(collection) == DocsLoop(collection.items, 1, FreshState)

(***************************************************************************)
(* The values and documents the stream is drawn from.                      *)
(***************************************************************************)
Int1 == Scalar("int", "1")
Int2 == Scalar("int", "2")
BoolTrue == Scalar("bool", "True")
Float15 == Scalar("float", "1.5")
FloatInf == Scalar("float", "inf")
StrA == Scalar("str", "a")
StrB == Scalar("str", "b")
Str2 == Scalar("str", "2")
Str42 == Scalar("str", "4.2")
Oid1 == Scalar("ObjectId", "o1")
NoDoc == Scalar("NoneType", "None")

FourKeys == PyDict(<< <<"p", Int1>>, <<"q", Int2>>, <<"s", StrA>>, <<"t", Float15>> >>)
NestedRel == PyDict(<< <<"p", StrB>>, <<"n", PyDict(<< <<"y", PyList(<<Int1>>)>> >>)>> >>)

Docs ==
    { PyDict(<< <<"name", StrA>>, <<"age", Int1>> >>),
      PyDict(<< <<"name", StrB>>, <<"age", Str2>> >>),
      PyDict(<< <<"age", StrA>>, <<"tags", PyList(<<Int1, Int2>>)>> >>),
      PyDict(<< <<"age", Float15>>, <<"a", PyDict(<< <<"x", Int1>> >>)>> >>),
      PyDict(<< <<"age", Str42>>, <<"id", Oid1>> >>),
      PyDict(<< <<"age", BoolTrue>>, <<"r", Int2>> >>),
      PyDict(<< <<"r", FourKeys>> >>),
      PyDict(<< <<"r", NestedRel>> >>),
      PyDict(<< <<"a_x", FourKeys>>, <<"a", PyDict(<< <<"x", Int2>> >>)>> >>),
      PyDict(<< <<"age", Int2>>, <<"w", FloatInf>> >>),
      PyDict(<< <<"tags", PyList(<<PyList(<<>>)>>)>>, <<"e", PyDict(<< <<"x", PyDict(<<>>)>> >>)>> >>),
      PyDict(<< <<"tags", PyList(<<PyList(<<Int1>>)>>)>> >>),
      PyList(<<>>) }

(***************************************************************************)
(* The state of one call generate_schema(collection) on a new              *)
(* SchemaParser: the locals field_map and rel_map, the parser's            *)
(* uniques.candidates and uniques.candidate_maps, the loop variable doc,   *)
(* the documents the loop has completed (processed), where the call is     *)
(* (pc) and the exception that left it (exc).                              *)
(***************************************************************************)
VARIABLES field_map, rel_map, candidates, candidate_maps, doc, processed, pc, exc

(***************************************************************************)
(* A direct call of one of the parser's pure methods: the method (fn), its *)
(* argument (arg) and what the call gave (result: the returned value as    *)
(* text, or the exception that left it).                                   *)
(***************************************************************************)
VARIABLES fn, arg, result

scan == <<field_map, rel_map, candidates, candidate_maps, doc, processed, pc, exc>>

call == <<fn, arg, result>>

vars == <<field_map, rel_map, candidates, candidate_maps, doc, processed, pc, exc,
          fn, arg, result>>

NoResult == [exc |-> "none", value |-> ""]

InitScan ==
    /\ field_map = <<>>
    /\ rel_map = <<>>
    /\ candidates = <<>>
    /\ candidate_maps = <<>>
    /\ doc = NoDoc
    /\ processed = <<>>
    /\ pc = "scanning"
    /\ exc = "none"

Init == InitScan /\ fn = "none" /\ arg = NoDoc /\ result = NoResult

(***************************************************************************)
(* One iteration of "for doc in collection": the stream yields d and the   *)
(* loop body runs on it.  An exception of the body leaves generate_schema  *)
(* (there is no handler), with the updates made before it in place.        *)
(***************************************************************************)
ProcessDoc(d) ==
    /\ pc = "scanning"
    /\ Len(processed) < MaxDocs
    /\ LET st == LoopBody([field_map |-> field_map, rel_map |-> rel_map,
                           candidates |-> candidates,
                           candidate_maps |-> candidate_maps, exc |-> "none"], d)
       IN  /\ field_map' = st.field_map
           /\ rel_map' = st.rel_map
           /\ candidates' = st.candidates
           /\ candidate_maps' = st.candidate_maps
           /\ exc' = st.exc
           /\ pc' = IF st.exc = "none" THEN "scanning" ELSE "raised"
           /\ processed' = IF st.exc = "none" THEN Append(processed, d) ELSE processed
    /\ doc' = d
    /\ UNCHANGED call

(***************************************************************************)
(* The stream is exhausted: generate_schema returns field_map.             *)
(***************************************************************************)
Return ==
    /\ pc = "scanning"
    /\ pc' = "returned"
    /\ UNCHANGED <<field_map, rel_map, candidates, candidate_maps, doc, processed, exc>>
    /\ UNCHANGED call

Next == (\E d \in Docs : ProcessDoc(d)) \/ Return

Spec == Init /\ [][Next]_vars

(***************************************************************************)
(* The arguments of the direct calls: every scalar kind, and the lists of  *)
(* up to MaxListLen elements and the maps of up to MaxMapLen entries over  *)
(* Elements.                                                               *)
(***************************************************************************)
Scalars ==
    { Int1, Int2, BoolTrue, Scalar("bool", "False"), Float15, FloatInf,
      Scalar("float", "-inf"), Scalar("float", "nan"), StrA, Str2, Str42,
      Scalar("str", "42"), Scalar("str", "inf"), Oid1 }

Elements == {Int1, PyList(<<>>), PyDict(<<>>), PyList(<<Int1>>)}

KeyName(i) == "k" \o ToString(i)

Lists == UNION {{PyList(e) : e \in [1..n -> Elements]} : n \in 0..MaxListLen}

Maps ==
    UNION {{PyDict([i \in 1..n |-> <<KeyName(i), e[i]>>]) : e \in [1..n -> Elements]}
               : n \in 0..MaxMapLen}

InitCall ==
    /\ InitScan
    /\ fn = "none"
    /\ arg \in Scalars \cup Lists \cup Maps
    /\ result = NoResult

(***************************************************************************)
(* SchemaParser._is_complex(arg), for a list or a map.                     *)
(***************************************************************************)
CallIsComplex ==
    /\ fn = "none"
    /\ IsListOrMapping(arg)
    /\ fn' = "_is_complex"
    /\ result' = [exc |-> "none", value |-> IF _is_complex(arg) THEN "True" ELSE "False"]
    /\ UNCHANGED <<arg, scan>>

(***************************************************************************)
(* SchemaParser().infer_type(arg).                                         *)
(***************************************************************************)
CallInferType ==
    /\ fn = "none"
    /\ fn' = "infer_type"
    /\ result' = [exc |-> infer_type(arg).exc, value |-> infer_type(arg).type]
    /\ UNCHANGED <<arg, scan>>

NextCall == CallIsComplex \/ CallInferType

SpecCall == InitCall /\ [][NextCall]_vars

(***************************************************************************)
(* Vocabulary of the properties.                                           *)
(***************************************************************************)
Raised == pc = "raised"

FieldsOf(d) == parse_object(d).fields

RelationshipsOf(d) == parse_object(d).relationships

\* The documents of the processed prefix whose split produced flat field f.
DocsWithField(f) == {i \in 1..Len(processed) : DictHas(FieldsOf(processed[i]), f)}

FieldNames == UNION {DictKeys(FieldsOf(processed[i])) : i \in 1..Len(processed)}

FieldValue(i, f) == DictGet(FieldsOf(processed[i]), f)

\* Python equality of two scalar values (True == 1).
PyEqual(v, w) == BloomKey(v) = BloomKey(w)

IsComposite(v) == v.t \in {"list", "dict", "tuple"}

RECURSIVE SumFrom(_, _)
SumFrom(types, i) == IF i > Len(types) THEN 0 ELSE types[i][2] + SumFrom(types, i + 1)

SumCounts(types) == SumFrom(types, 1)

CountOfType(fm, f, t) ==
    IF DictHas(fm, f) THEN DictGetDefault(DictGet(fm, f).types, t, 0) ELSE 0

\* A field map as a mapping, the order of its entries and of each histogram's
\* entries forgotten: (name, representative type, histogram).
Histogram(types) == {types[i] : i \in 1..Len(types)}

SchemaView(fm) ==
    {<<fm[i][1], fm[i][2].infered_type, Histogram(fm[i][2].types)>> : i \in 1..Len(fm)}

HistogramView(fm) == {<<fm[i][1], Histogram(fm[i][2].types)>> : i \in 1..Len(fm)}

StreamOrders(n) ==
    {p \in [1..n -> 1..n] : \A i, j \in 1..n : p[i] = p[j] => i = j}

\* The scalar kinds the claim names.
IsClaimedScalar(v) == v.t \in {"int", "float", "str", "ObjectId"}

\* Field f occurs, always with a scalar value, and never twice with equal values.
AllDistinctScalars(f) ==
    /\ DocsWithField(f) # {}
    /\ \A i \in DocsWithField(f) : IsClaimedScalar(FieldValue(i, f))
    /\ \A i, j \in DocsWithField(f) :
          i # j => ~PyEqual(FieldValue(i, f), FieldValue(j, f))

(***************************************************************************)
(* C1: after generate_schema has consumed the whole stream, every flat     *)
(* field whose values are all scalars (int, float, text, ObjectId) and     *)
(* pairwise distinct is in get_uniques (the filter being an exact set).    *)
(***************************************************************************)
C1_DistinctScalarFieldsAreUnique ==
    pc = "returned" =>
        \A f \in FieldNames : AllDistinctScalars(f) => f \in get_uniques(candidates)

\* check_unique was called for f with a scalar value and later with an equal one.
DuplicateObserved(f) ==
    \E i, j \in DocsWithField(f) :
        /\ i < j
        /\ ~IsComposite(FieldValue(i, f))
        /\ ~IsComposite(FieldValue(j, f))
        /\ PyEqual(FieldValue(i, f), FieldValue(j, f))

(***************************************************************************)
(* C2: once check_unique has been given, for one field name, a scalar      *)
(* value it had been given before for that name, the field is never again  *)
(* in get_uniques.  (The calls are those of the processed documents; the   *)
(* history only grows, so the invariant covers every later state.)         *)
(***************************************************************************)
C2_DuplicateDisqualifiesForGood ==
    \A f \in FieldNames : DuplicateObserved(f) => f \notin get_uniques(candidates)

\* The processed documents in the order p, as a collection.
Permuted(p) == PyList([i \in 1..Len(processed) |-> processed[p[i]]])

(***************************************************************************)
(* C3: generate_schema over any permutation of the processed documents     *)
(* yields the same histograms and the same representative types.           *)
(***************************************************************************)
C3_OrderIndependent ==
    ~Raised =>
        \A p \in StreamOrders(Len(processed)) :
            SchemaView(generate_schema(Permuted(p)).field_map) = SchemaView(field_map)

\* Counter.most_common(1): the highest count, the first inserted among equals.
MostCommon(types) ==
    LET best == CHOOSE i \in 1..Len(types) :
                    /\ \A j \in 1..Len(types) : types[j][2] <= types[i][2]
                    /\ \A j \in 1..(i - 1) : types[j][2] < types[i][2]
    IN  types[best][1]

(***************************************************************************)
(* C4: after any processed prefix, infered_type of every field is the type *)
(* with the highest count of its histogram, the first observed among those *)
(* of highest count.                                                       *)
(***************************************************************************)
C4_RepresentativeIsMostFrequent ==
    ~Raised =>
        \A i \in 1..Len(field_map) :
            field_map[i][2].infered_type = MostCommon(field_map[i][2].types)

(***************************************************************************)
(* C5: the flat-field names and the relationship names parse_object        *)
(* returns for one document are disjoint, and so are the keys of field_map *)
(* and rel_map after any processed prefix.                                 *)
(***************************************************************************)
C5_FieldsAndRelationshipsDisjoint ==
    /\ \A i \in 1..Len(processed) :
          DictKeys(FieldsOf(processed[i])) \cap DictKeys(RelationshipsOf(processed[i])) = {}
    /\ ~Raised => DictKeys(field_map) \cap DictKeys(rel_map) = {}

\* The classifier as the specification states it.
HasNestedComposite(items) == \E i \in 1..Len(items) : IsListOrMapping(items[i][2])

ClassifierSpec(value) ==
    IF value.t = "list" THEN HasNestedComposite(value.items)
    ELSE Len(value.items) > 3 \/ HasNestedComposite(value.items)

(***************************************************************************)
(* C6: _is_complex agrees with the classifier of the specification on      *)
(* every list and every map: a list is complex exactly when an element is  *)
(* a list or a map (an empty one too), a map when it has more than 3       *)
(* entries or a value that is a list or a map (an empty one too).          *)
(***************************************************************************)
C6_ClassifierAgrees ==
    fn = "_is_complex" =>
        result = [exc |-> "none", value |-> IF ClassifierSpec(arg) THEN "True" ELSE "False"]

\* The first type of the hierarchy the value is an instance of or coerces to.
FirstFit(value) ==
    IF \E i \in 1..Len(TypeHierarchy) :
           IsInstance(value, TypeHierarchy[i]) \/ Coerce(TypeHierarchy[i], value) = "ok"
    THEN TypeHierarchy[CHOOSE i \in 1..Len(TypeHierarchy) :
           /\ IsInstance(value, TypeHierarchy[i]) \/ Coerce(TypeHierarchy[i], value) = "ok"
           /\ \A j \in 1..(i - 1) :
                 ~(IsInstance(value, TypeHierarchy[j]) \/ Coerce(TypeHierarchy[j], value) = "ok")]
    ELSE "str"

(***************************************************************************)
(* C7: infer_type gives every value exactly one type and raises nothing:   *)
(* the first of int, float, str the value is an instance of or can be      *)
(* coerced to, str when there is none; so int for every int, bool and text *)
(* that int() accepts.                                                     *)
(***************************************************************************)
C7_InferTypeTotalFirstFit ==
    fn = "infer_type" =>
        /\ result.exc = "none"
        /\ result.value = FirstFit(arg)
        /\ (arg.t \in {"int", "bool"} \/ (arg.t = "str" /\ arg.v \in IntLiterals))
              => result.value = "int"

(***************************************************************************)
(* C8: no exception leaves generate_schema: a document whose processing    *)
(* fails is skipped and the scan goes on.                                  *)
(***************************************************************************)
C8_NoExceptionEscapes == ~Raised /\ exc = "none"

\* The sub-documents of relationship r over the processed documents, in order.
DocsWithRelationship(r) ==
    {i \in 1..Len(processed) : DictHas(RelationshipsOf(processed[i]), r)}

RECURSIVE SubDocsFrom(_, _)
SubDocsFrom(r, i) ==
    IF i > Len(processed) THEN <<>>
    ELSE IF i \in DocsWithRelationship(r)
         THEN <<DictGet(processed[i].items, r)>> \o SubDocsFrom(r, i + 1)
         ELSE SubDocsFrom(r, i + 1)

(***************************************************************************)
(* C9: after any processed prefix, the child schema stored for             *)
(* relationship r is the fold, by one child builder, of the sub-documents  *)
(* of r of all the processed documents whose split produced r.             *)
(***************************************************************************)
C9_ChildSchemaAggregates ==
    ~Raised =>
        \A k \in 1..Len(rel_map) :
            SchemaView(rel_map[k][2])
                = SchemaView(generate_schema(PyList(SubDocsFrom(rel_map[k][1], 1))).field_map)

\* The keys a histogram can hold.
HistogramTypes == {TypeHierarchy[i] : i \in 1..Len(TypeHierarchy)}

CountsMatchDocuments ==
    ~Raised =>
        /\ DictKeys(field_map) = FieldNames
        /\ \A f \in FieldNames :
              SumCounts(DictGet(field_map, f).types) = Cardinality(DocsWithField(f))

CountsStep ==
    /\ \A f \in DictKeys(field_map) :
          /\ DictHas(field_map', f)
          /\ \A t \in HistogramTypes : CountOfType(field_map', f, t) >= CountOfType(field_map, f, t)
    /\ processed' # processed =>
          \A f \in DictKeys(field_map') :
              IF DictHas(FieldsOf(doc'), f)
              THEN \E t \in HistogramTypes :
                      /\ CountOfType(field_map', f, t) = CountOfType(field_map, f, t) + 1
                      /\ \A u \in HistogramTypes \ {t} :
                            CountOfType(field_map', f, u) = CountOfType(field_map, f, u)
              ELSE /\ DictHas(field_map, f)
                   /\ DictGet(field_map', f) = DictGet(field_map, f)

(***************************************************************************)
(* C10: after any processed prefix, field_map has an entry exactly for the *)
(* names some processed document produced as a flat field, and the counts  *)
(* of f's histogram sum to the number of processed documents that produced *)
(* f; a processed document raises exactly one count of each of its fields  *)
(* by one and leaves the other entries alone; no entry is removed and no   *)
(* count decreases.                                                        *)
(***************************************************************************)
C10_HistogramCounts == [](CountsMatchDocuments) /\ [][CountsStep]_vars

\* Three documents processed, two of them with a field they typed differently.
C10_Witness ==
    /\ ~Raised
    /\ Len(processed) = 3
    /\ \E f \in FieldNames :
          /\ Cardinality(DocsWithField(f)) = 2
          /\ Len(DictGet(field_map, f).types) = 2
          /\ SumCounts(DictGet(field_map, f).types) = 2

====
